---- MODULE Spec2Model ----
(***************************************************************************)
(* Registration lifecycle and expiry classification of the admin           *)
(* dashboard: the RegistrationsTab component (approve / reject / restore / *)
(* delete against the registrations table, the ad-hoc expiry filter) and   *)
(* the NotificationBell component (re-fetch and bucketing of pending       *)
(* registrations).                                                         *)
(*                                                                         *)
(* Time is an integer number of clock ticks since the epoch; one day is    *)
(* TicksPerDay ticks (the source works in milliseconds, 86400000 a day).   *)
(* A nullable column is <<>> (null) or <<v>> (the value v).                *)
(* Every await of the source is a step boundary: a handler runs up to its  *)
(* request, the backend serves the request, the handler resumes.           *)
(***************************************************************************)
EXTENDS Integers, Sequences, FiniteSets, Bags, TLC

\* ------------------------------------------------------------ bounds
TicksPerDay == 2
StartDay == 6
MaxTicks == 1
MaxClicks == 2
MaxBellFetches == 2
MaxTransfers == 2

\* ------------------------------------------------- program constants
DefaultExpiryDays == 30
ExpiringSoonDays == 3
\* the delay of the auto-show timer, in seconds (setTimeout(..., 2000))
AutoShowDelay == 2

RegIds == {1, 2}
CatIds == {10, 20, 30, 40}
ADMIN == "eva"

None == <<>>
Some(v) == <<v>>
\* JavaScript truthiness of a nullable column value (null is falsy, an ISO
\* date string or a positive number is truthy).
Truthy(o) == o # None

StartTime == StartDay * TicksPerDay
MaxTime == StartTime + MaxTicks

VARIABLES
  now,               \* the wall clock, ticks since the epoch
  db,                \* table registrations: id -> row, for the rows that exist
  registrations,     \* RegistrationsTab state: the locally held list
  categories,        \* RegistrationsTab state: the loaded active categories
  loading,           \* RegistrationsTab state
  expiryFilter,      \* RegistrationsTab state: text of the "Expires within days" input
  net,               \* bag of the tab's requests in flight
  clicks,            \* number of write requests issued so far
  expiredRegistrations,   \* NotificationBell state: the expired bucket
  expiringRegistrations,  \* NotificationBell state: the expiring-soon bucket
  bellLoading,            \* NotificationBell state: loading
  bellNet,                \* bag of the bell's selects in flight
  bellStarted,            \* number of calls of fetchExpiringRegistrations so far
  showAlert,              \* NotificationBell state
  acknowledged,           \* NotificationBell state
  timer,                  \* the auto-show timeout: <<>> (none armed) or
                          \* <<seconds left>>
  mounted,                \* the bell is mounted: channel subscribed, interval set
  transferRegistration,   \* CategoryTransferRequest: the registration prop,
                          \* <<[id, category_id]>>, or <<>> while not mounted
  selectableCategories,   \* CategoryTransferRequest state: categories
  selectedCategoryId,     \* CategoryTransferRequest state: <<>> is ''
  showForm,               \* CategoryTransferRequest state
  transferLoading,        \* CategoryTransferRequest state: loading
  transferNet,            \* bag of the transfer form's requests in flight
  category_transfer_requests  \* table category_transfer_requests, in insert order

bellVars == <<expiredRegistrations, expiringRegistrations, bellLoading, bellNet,
              bellStarted, showAlert, acknowledged, timer, mounted>>

transferVars == <<transferRegistration, selectableCategories, selectedCategoryId, showForm,
                  transferLoading, transferNet, category_transfer_requests>>

tabVars == <<db, registrations, categories, loading, expiryFilter, net, clicks>>

vars == <<now, db, registrations, categories, loading, expiryFilter, net, clicks, bellVars,
          transferVars>>

\* ------------------------------------------------------------ helpers
\* A request of the tab: stage "sent" (on its way to the backend), then
\* "ok" or "error" (the answer on its way back to the awaiting handler).
Req(kind, id, payload) ==
  [kind |-> kind, stage |-> "sent", id |-> id, payload |-> payload, rows |-> <<>>]

Add(bag, t) == bag (+) SetToBag({t})
Remove(bag, t) == bag (-) SetToBag({t})
Replace(bag, t, u) == Add(Remove(bag, t), u)

\* .order('created_at', { ascending: false }); rows of equal created_at in id order
Before(x, y) ==
  \/ x.created_at > y.created_at
  \/ x.created_at = y.created_at /\ x.id <= y.id

RECURSIVE OrderByCreatedDesc(_)
OrderByCreatedDesc(S) ==
  IF S = {} THEN <<>>
  ELSE LET m == CHOOSE x \in S : \A y \in S : Before(x, y)
       IN  <<m>> \o OrderByCreatedDesc(S \ {m})

\* registrations.find(r => r.id === id): the set holding the row found, or {}
Find(list, id) ==
  LET I == {i \in 1..Len(list) : list[i].id = id}
  IN  IF I = {} THEN {} ELSE {list[CHOOSE i \in I : \A j \in I : i <= j]}

\* .update(payload).eq('id', id): a partial field set merged into the row
ApplyUpdate(row, payload) ==
  [f \in DOMAIN row |-> IF f \in DOMAIN payload THEN payload[f] ELSE row[f]]

AddDays_Backwards(t, days) == t - days * TicksPerDay

\* new Date(d); d.setDate(d.getDate() + days)
AddDays(t, days) == t + days * TicksPerDay

\* ------------------------------------------------- RegistrationsTab
\* fetchRegistrations, up to its await: setLoading(true) and the select request
fetchRegistrations_start(bag) ==
  /\ loading' = TRUE
  /\ net' = Add(bag, Req("fetchRegistrations", 0, <<>>))

\* the backend answers the select with every row, newest first
fetchRegistrations_serve(t) ==
  /\ t.kind = "fetchRegistrations" /\ t.stage = "sent"
  /\ net' = Replace(net, t, [t EXCEPT !.stage = "ok",
                                      !.rows = OrderByCreatedDesc({db[r] : r \in DOMAIN db})])
  /\ UNCHANGED <<now, db, registrations, categories, loading, expiryFilter, clicks, bellVars, transferVars>>

\* fetchRegistrations after its await, on success: setRegistrations(data),
\* then setLoading(false)
fetchRegistrations_resume(t) ==
  /\ t.kind = "fetchRegistrations" /\ t.stage = "ok"
  /\ registrations' = t.rows
  /\ loading' = FALSE
  /\ net' = Remove(net, t)
  /\ UNCHANGED <<now, db, categories, expiryFilter, clicks, bellVars, transferVars>>

fetchRegistrations_fail_ClearsList(t) ==
  /\ t.kind = "fetchRegistrations" /\ t.stage = "sent"
  /\ registrations' = <<>>
  /\ loading' = FALSE
  /\ net' = Remove(net, t)
  /\ UNCHANGED <<now, db, categories, expiryFilter, clicks, bellVars, transferVars>>

\* the select fails (an error result or a thrown exception, handled alike):
\* a toast, then setLoading(false)
fetchRegistrations_fail(t) ==
  /\ t.kind = "fetchRegistrations" /\ t.stage = "sent"
  /\ loading' = FALSE
  /\ net' = Remove(net, t)
  /\ UNCHANGED <<now, db, registrations, categories, expiryFilter, clicks, bellVars, transferVars>>

CategoryRow(id, days, active) == [id |-> id, expiry_days |-> days, is_active |-> active]

\* table categories (read-only for this program): a 45-day and a 1-day
\* category, one whose expiry_days is null, and an inactive one
categoriesTable ==
  [c \in CatIds |->
     CASE c = 10 -> CategoryRow(10, Some(45), TRUE)
       [] c = 20 -> CategoryRow(20, None, TRUE)
       [] c = 30 -> CategoryRow(30, Some(7), FALSE)
       [] c = 40 -> CategoryRow(40, Some(1), TRUE)]

\* .from('categories').select('*').eq('is_active', true).order('name_english')
ActiveCategories ==
  LET A == {c \in CatIds : categoriesTable[c].is_active}
      RECURSIVE Asc(_)
      Asc(S) == IF S = {} THEN <<>>
                ELSE LET m == CHOOSE x \in S : \A y \in S : x <= y
                     IN  <<categoriesTable[m]>> \o Asc(S \ {m})
  IN  Asc(A)

\* fetchCategories completes (the table is read-only, so the moment of the
\* read is immaterial): if (data) setCategories(data); on failure data is
\* null and the list stays as it is
fetchCategories(t) ==
  /\ t.kind = "fetchCategories" /\ t.stage = "sent"
  /\ \E ok \in BOOLEAN :
       categories' = IF ok THEN ActiveCategories ELSE categories
  /\ net' = Remove(net, t)
  /\ UNCHANGED <<now, db, registrations, loading, expiryFilter, clicks, bellVars, transferVars>>

\* category?.expiry_days || 30, the category looked up in the loaded list
ExpiryDaysFor(registration) ==
  LET category == Find(categories, registration.category_id)
  IN  IF category = {} THEN DefaultExpiryDays
      ELSE LET c == CHOOSE c \in category : TRUE
           IN  IF c.expiry_days = None \/ c.expiry_days = Some(0)
                 THEN DefaultExpiryDays
                 ELSE c.expiry_days[1]

ExpiryDateFor_FromCreation(registration) ==
  AddDays(registration.created_at, ExpiryDaysFor(registration))

\* const expiryDate = new Date(); expiryDate.setDate(expiryDate.getDate() + expiryDays)
ExpiryDateFor(registration) == AddDays(now, ExpiryDaysFor(registration))

\* updateData of updateRegistrationStatus(id, status)
updateData(id, status) ==
  LET base == IF status = "approved"
                THEN [status |-> status, approved_date |-> Some(now),
                      approved_by |-> Some(ADMIN)]
                ELSE [status |-> status]
      found == Find(registrations, id)
  IN  IF status = "approved" /\ found # {}
         /\ ~Truthy((CHOOSE r \in found : TRUE).expiry_date)
        THEN base @@ [expiry_date |-> Some(ExpiryDateFor(CHOOSE r \in found : TRUE))]
        ELSE base

restoreData_KeepsApprover == [status |-> "pending", approved_date |-> None]

restoreData_ClearsExpiry ==
  [status |-> "pending", approved_date |-> None, approved_by |-> None,
   expiry_date |-> None]

\* the payload of restoreRegistration
restoreData == [status |-> "pending", approved_date |-> None, approved_by |-> None]

\* The row's buttons are rendered from the local list, and only while
\* loading is false.
Shown(reg) ==
  /\ ~loading
  /\ \E i \in 1..Len(registrations) : registrations[i] = reg
  /\ clicks < MaxClicks

\* click on Approve or Reject of a row shown as pending: the handler up to
\* its await of the update request
updateRegistrationStatus(reg, status) ==
  /\ Shown(reg) /\ reg.status = "pending"
  /\ status \in {"approved", "rejected"}
  /\ net' = Add(net, Req("update", reg.id, updateData(reg.id, status)))
  /\ clicks' = clicks + 1
  /\ UNCHANGED <<now, db, registrations, categories, loading, expiryFilter, bellVars, transferVars>>

\* click on Restore of a row shown as approved or rejected; the confirm
\* dialog may be declined
restoreRegistration(reg) ==
  /\ Shown(reg) /\ reg.status \in {"approved", "rejected"}
  /\ \E confirmed \in BOOLEAN :
       /\ net' = IF confirmed THEN Add(net, Req("update", reg.id, restoreData)) ELSE net
       /\ clicks' = IF confirmed THEN clicks + 1 ELSE clicks
  /\ UNCHANGED <<now, db, registrations, categories, loading, expiryFilter, bellVars, transferVars>>

\* click on Delete of any row
deleteRegistration(reg) ==
  /\ Shown(reg)
  /\ \E confirmed \in BOOLEAN :
       /\ net' = IF confirmed THEN Add(net, Req("delete", reg.id, <<>>)) ELSE net
       /\ clicks' = IF confirmed THEN clicks + 1 ELSE clicks
  /\ UNCHANGED <<now, db, registrations, categories, loading, expiryFilter, bellVars, transferVars>>

\* the backend applies .update(payload).eq('id', id); no row matched is no
\* error and writes nothing
update_serve(t) ==
  /\ t.kind = "update" /\ t.stage = "sent"
  /\ net' = Replace(net, t, [t EXCEPT !.stage = "ok"])
  /\ db' = IF t.id \in DOMAIN db
             THEN [db EXCEPT ![t.id] = ApplyUpdate(@, t.payload)]
             ELSE db
  /\ UNCHANGED <<now, registrations, categories, loading, expiryFilter, clicks, bellVars, transferVars>>

\* the backend applies .delete().eq('id', id)
delete_serve(t) ==
  /\ t.kind = "delete" /\ t.stage = "sent"
  /\ net' = Replace(net, t, [t EXCEPT !.stage = "ok"])
  /\ db' = [r \in DOMAIN db \ {t.id} |-> db[r]]
  /\ UNCHANGED <<now, registrations, categories, loading, expiryFilter, clicks, bellVars, transferVars>>

\* the write handlers after their await, on success: a toast and
\* fetchRegistrations()
write_resume(t) ==
  /\ t.kind \in {"update", "delete"} /\ t.stage = "ok"
  /\ fetchRegistrations_start(Remove(net, t))
  /\ UNCHANGED <<now, db, registrations, categories, expiryFilter, clicks, bellVars, transferVars>>

write_fail_Refetches(t) ==
  /\ t.kind \in {"update", "delete"} /\ t.stage = "sent"
  /\ fetchRegistrations_start(Remove(net, t))
  /\ UNCHANGED <<now, db, registrations, categories, expiryFilter, clicks, bellVars, transferVars>>

\* the write fails (an error result or a thrown exception): nothing is
\* written, the handler shows a toast and does nothing else
write_fail(t) ==
  /\ t.kind \in {"update", "delete"} /\ t.stage = "sent"
  /\ net' = Remove(net, t)
  /\ UNCHANGED <<now, db, registrations, categories, loading, expiryFilter, clicks, bellVars, transferVars>>

\* the wall clock moves on by one tick, hours long: an armed auto-show
\* timeout, two seconds long, has fired before
Tick ==
  /\ now < MaxTime
  /\ timer = None
  /\ now' = now + 1
  /\ UNCHANGED <<db, registrations, categories, loading, expiryFilter, net, clicks, bellVars, transferVars>>

\* ------------------------------------- the ad-hoc expiry filter
\* the texts typed into the number input "Expires within days"
FilterTexts ==
  {<<>>, <<"0">>, <<"1">>, <<"5">>, <<"1", ".", "5">>}

setExpiryFilter(text) ==
  /\ text \in FilterTexts
  /\ expiryFilter' = text
  /\ UNCHANGED <<now, db, registrations, categories, loading, net, clicks, bellVars, transferVars>>

DigitValue(c) ==
  CASE c = "0" -> 0 [] c = "1" -> 1 [] c = "2" -> 2 [] c = "3" -> 3 [] c = "4" -> 4
    [] c = "5" -> 5 [] c = "6" -> 6 [] c = "7" -> 7 [] c = "8" -> 8 [] c = "9" -> 9
    [] OTHER -> -1

\* parseInt(text): an optional sign and the leading decimal digits, the
\* rest ignored; NaN (None here) when there is no leading digit
ParseInt(text) ==
  LET signed == Len(text) > 0 /\ text[1] \in {"-", "+"}
      body == IF signed THEN Tail(text) ELSE text
      RECURSIVE Leading(_, _)
      Leading(i, acc) ==
        IF i > Len(body) \/ DigitValue(body[i]) < 0 THEN <<i - 1, acc>>
        ELSE Leading(i + 1, 10 * acc + DigitValue(body[i]))
      got == Leading(1, 0)
  IN  IF got[1] = 0 THEN None
      ELSE Some(IF signed /\ text[1] = "-" THEN 0 - got[2] ELSE got[2])

CeilDiv_Floor(a, b) == a \div b

\* Math.ceil(a / b) for b > 0
CeilDiv(a, b) == 0 - ((0 - a) \div b)

DateTime_NullIsNow(d) == IF d = None THEN now ELSE d[1]

\* new Date(d).getTime(); new Date(null) is the epoch
DateTime(d) == IF d = None THEN 0 ELSE d[1]

\* Math.ceil((new Date(expiry_date).getTime() - new Date().getTime()) / (1000 * 60 * 60 * 24))
DaysLeft(expiry_date) == CeilDiv(DateTime(expiry_date) - now, TicksPerDay)

MatchesExpiry_NoZeroCase(reg) ==
  expiryFilter = <<>> \/
    IF reg.status = "approved" THEN FALSE
    ELSE LET daysLeft == DaysLeft(reg.expiry_date)
             filterDays == ParseInt(expiryFilter)
         IN  filterDays # None /\ daysLeft <= filterDays[1] /\ daysLeft >= 0

\* matchesExpiry of filteredRegistrations, as the list is rendered at now;
\* a comparison with NaN is false
MatchesExpiry(reg) ==
  expiryFilter = <<>> \/
    IF reg.status = "approved" THEN FALSE
    ELSE LET daysLeft == DaysLeft(reg.expiry_date)
             filterDays == ParseInt(expiryFilter)
         IN  IF filterDays = Some(0) THEN daysLeft <= 0
             ELSE filterDays # None /\ daysLeft <= filterDays[1] /\ daysLeft >= 0

\* ------------------------------------------------- NotificationBell
\* fetchExpiringRegistrations up to its await, called by the change
\* subscription or by the hourly interval
fetchExpiringRegistrations_start ==
  /\ mounted
  /\ bellStarted < MaxBellFetches
  /\ bellLoading' = TRUE
  /\ bellStarted' = bellStarted + 1
  /\ bellNet' = Add(bellNet, [stage |-> "sent", rows |-> <<>>, seq |-> bellStarted + 1])
  /\ UNCHANGED <<now, db, registrations, categories, loading, expiryFilter, net, clicks,
                 transferVars,
                 expiredRegistrations, expiringRegistrations,
                 showAlert, acknowledged, timer, mounted>>

RECURSIVE InIdOrder(_)
InIdOrder(S) ==
  IF S = {} THEN <<>>
  ELSE LET m == CHOOSE x \in S : \A y \in S : x.id <= y.id
       IN  <<m>> \o InIdOrder(S \ {m})

SelectPending_AnyStatus == InIdOrder({db[r] : r \in DOMAIN db})

\* .from('registrations').select(...).eq('status', 'pending'); no order is
\* asked for, the rows come in id order here
SelectPending ==
  InIdOrder({db[r] : r \in {x \in DOMAIN db : db[x].status = "pending"}})

fetchExpiringRegistrations_serve(t) ==
  /\ t.stage = "sent"
  /\ bellNet' = Replace(bellNet, t, [t EXCEPT !.stage = "ok", !.rows = SelectPending])
  /\ UNCHANGED <<now, db, registrations, categories, loading, expiryFilter, net, clicks,
                 transferVars,
                 expiredRegistrations, expiringRegistrations, bellLoading,
                 bellStarted, showAlert, acknowledged, timer, mounted>>

\* registrations.map(...): days_remaining of every fetched row (the display
\* fields name, phone, esep_id, category and location are left out)
Processed(rows) ==
  [i \in 1..Len(rows) |->
     [id |-> rows[i].id, created_at |-> rows[i].created_at,
      days_remaining |-> DaysLeft(rows[i].expiry_date)]]

SortByDaysRemaining_Unsorted(s) == s

\* .sort((a, b) => a.days_remaining - b.days_remaining), a stable sort
RECURSIVE SortByDaysRemaining(_)
SortByDaysRemaining(s) ==
  IF s = <<>> THEN <<>>
  ELSE LET e == s[Len(s)]
           front == SortByDaysRemaining(SubSeq(s, 1, Len(s) - 1))
           k == Cardinality({i \in 1..Len(front) :
                               front[i].days_remaining <= e.days_remaining})
       IN  SubSeq(front, 1, k) \o <<e>> \o SubSeq(front, k + 1, Len(front))

Expired(processedRegs) ==
  SortByDaysRemaining(SelectSeq(processedRegs, LAMBDA reg : reg.days_remaining <= 0))

Expiring(processedRegs) ==
  SortByDaysRemaining(SelectSeq(processedRegs,
    LAMBDA reg : reg.days_remaining > 0 /\ reg.days_remaining <= ExpiringSoonDays))

\* the condition of the auto-show effect
AlertCondition(expired, expiring, ack) ==
  (Len(expired) > 0 \/ Len(expiring) > 0) /\ ~ack

AutoShowEffect_NoCleanup(expired, expiring, ack) ==
  timer' = IF AlertCondition(expired, expiring, ack) /\ timer = None
             THEN Some(AutoShowDelay) ELSE timer

\* The auto-show effect, run with the render that follows a state change:
\* when one of its dependencies (the two lengths, acknowledged) has changed,
\* the cleanup of the previous run clears its timeout and the effect arms a
\* new timeout if the condition holds.
AutoShowEffect(expired, expiring, ack) ==
  timer' = IF <<Len(expired), Len(expiring), ack>>
              = <<Len(expiredRegistrations), Len(expiringRegistrations), acknowledged>>
             THEN timer
             ELSE IF AlertCondition(expired, expiring, ack)
                    THEN Some(AutoShowDelay) ELSE None

\* fetchExpiringRegistrations after its await, on success; a state update
\* of an unmounted component does nothing
fetchExpiringRegistrations_resume(t) ==
  /\ t.stage = "ok"
  /\ bellNet' = Remove(bellNet, t)
  /\ IF mounted
       THEN /\ expiredRegistrations' = Expired(Processed(t.rows))
            /\ expiringRegistrations' = Expiring(Processed(t.rows))
            /\ bellLoading' = FALSE
            /\ AutoShowEffect(expiredRegistrations', expiringRegistrations', acknowledged)
       ELSE UNCHANGED <<expiredRegistrations, expiringRegistrations, bellLoading, timer>>
  /\ UNCHANGED <<now, db, registrations, categories, loading, expiryFilter, net, clicks,
                 transferVars,
                 bellStarted, showAlert, acknowledged, mounted>>

\* the select fails: on an error result the handler returns, on a thrown
\* exception it shows a toast; setLoading(false) in either case
fetchExpiringRegistrations_fail(t) ==
  /\ t.stage = "sent"
  /\ bellLoading' = IF mounted THEN FALSE ELSE bellLoading
  /\ bellNet' = Remove(bellNet, t)
  /\ UNCHANGED <<now, db, registrations, categories, loading, expiryFilter, net, clicks,
                 transferVars,
                 expiredRegistrations, expiringRegistrations,
                 bellStarted, showAlert, acknowledged, timer, mounted>>

\* two seconds of the auto-show timeout pass one at a time; the wall clock
\* of the expiry rules (one tick is a good part of a day) does not move
Second ==
  /\ timer # None /\ timer[1] > 0
  /\ timer' = Some(timer[1] - 1)
  /\ UNCHANGED <<now, tabVars, transferVars, expiredRegistrations, expiringRegistrations, bellLoading,
                 bellNet, bellStarted, showAlert, acknowledged, mounted>>

\* the timeout of the auto-show effect fires: setShowAlert(true)
autoShow_fire ==
  /\ timer = Some(0)
  /\ showAlert' = TRUE
  /\ timer' = None
  /\ UNCHANGED <<now, tabVars, transferVars, expiredRegistrations, expiringRegistrations, bellLoading,
                 bellNet, bellStarted, acknowledged, mounted>>

\* the badge of a bucket: rendered, with the bucket's length, only while the
\* bucket is not empty
Badge(bucket) == IF Len(bucket) > 0 THEN Some(Len(bucket)) ELSE None

\* registrations={[...expiredRegistrations, ...expiringRegistrations]}
AlertRegistrations == expiredRegistrations \o expiringRegistrations

handleNotificationClick_UnlessAcknowledged ==
  /\ mounted /\ ~bellLoading
  /\ Len(expiredRegistrations) > 0 \/ Len(expiringRegistrations) > 0
  /\ showAlert' = IF acknowledged THEN showAlert ELSE TRUE
  /\ UNCHANGED <<now, tabVars, transferVars, expiredRegistrations, expiringRegistrations, bellLoading,
                 bellNet, bellStarted, acknowledged, timer, mounted>>

\* click on the bell or on the triangle: each is rendered while its bucket
\* is not empty and is disabled while loading
handleNotificationClick ==
  /\ mounted /\ ~bellLoading
  /\ Len(expiredRegistrations) > 0 \/ Len(expiringRegistrations) > 0
  /\ showAlert' = TRUE
  /\ UNCHANGED <<now, tabVars, transferVars, expiredRegistrations, expiringRegistrations, bellLoading,
                 bellNet, bellStarted, acknowledged, timer, mounted>>

\* onOpenChange={setShowAlert}: the open alert is closed
onOpenChange ==
  /\ mounted /\ showAlert
  /\ showAlert' = FALSE
  /\ UNCHANGED <<now, tabVars, transferVars, expiredRegistrations, expiringRegistrations, bellLoading,
                 bellNet, bellStarted, acknowledged, timer, mounted>>

onGotIt_KeepsTimer ==
  /\ mounted /\ showAlert
  /\ acknowledged' = TRUE
  /\ UNCHANGED <<now, tabVars, transferVars, expiredRegistrations, expiringRegistrations, bellLoading,
                 bellNet, bellStarted, showAlert, timer, mounted>>

\* onGotIt={() => setAcknowledged(true)}, from the open alert
onGotIt ==
  /\ mounted /\ showAlert
  /\ acknowledged' = TRUE
  /\ AutoShowEffect(expiredRegistrations, expiringRegistrations, TRUE)
  /\ UNCHANGED <<now, tabVars, transferVars, expiredRegistrations, expiringRegistrations, bellLoading,
                 bellNet, bellStarted, showAlert, mounted>>

unmount_KeepsTimer ==
  /\ mounted
  /\ mounted' = FALSE
  /\ UNCHANGED <<now, tabVars, transferVars, expiredRegistrations, expiringRegistrations, bellLoading,
                 bellNet, bellStarted, showAlert, acknowledged, timer>>

\* the bell is unmounted: the cleanups remove the channel, clear the
\* interval and clear the auto-show timeout
unmount ==
  /\ mounted
  /\ mounted' = FALSE
  /\ timer' = None
  /\ UNCHANGED <<now, tabVars, transferVars, expiredRegistrations, expiringRegistrations, bellLoading,
                 bellNet, bellStarted, showAlert, acknowledged>>

\* ------------------------------------------- CategoryTransferRequest
\* the form is not on the page: its state at construction, no prop, no
\* request in flight, the table empty
TransferUnmounted ==
  /\ transferRegistration = None
  /\ selectableCategories = <<>>
  /\ selectedCategoryId = None
  /\ showForm = FALSE
  /\ transferLoading = FALSE
  /\ transferNet = EmptyBag
  /\ category_transfer_requests = <<>>

\* .from('categories').select(...).eq('is_active', true).neq('id', exclude)
SelectableCategories(exclude) ==
  SelectSeq(ActiveCategories, LAMBDA c : c.id # exclude)

\* fetchCategories of the form completes (the table is read-only, so the
\* moment of the read is immaterial): setCategories(data || []), or a toast
\* on an error; the id to leave out was taken from the prop at the call
transfer_fetchCategories(t) ==
  /\ t.kind = "fetchCategories" /\ t.stage = "sent"
  /\ \E ok \in BOOLEAN :
       selectableCategories' = IF ok THEN SelectableCategories(t.exclude)
                                     ELSE selectableCategories
  /\ transferNet' = Remove(transferNet, t)
  /\ UNCHANGED <<now, tabVars, bellVars, transferRegistration, selectedCategoryId, showForm,
                 transferLoading, category_transfer_requests>>

\* setShowForm(true) by "Request Category Transfer", setShowForm(false) by
\* Cancel
setShowForm(open) ==
  /\ transferRegistration # None
  /\ showForm # open
  /\ showForm' = open
  /\ UNCHANGED <<now, tabVars, bellVars, transferRegistration, selectableCategories,
                 selectedCategoryId, transferLoading, transferNet,
                 category_transfer_requests>>

\* onValueChange={setSelectedCategoryId}: one of the listed categories
setSelectedCategoryId(i) ==
  /\ showForm
  /\ i \in 1..Len(selectableCategories)
  /\ selectedCategoryId' = Some(selectableCategories[i].id)
  /\ UNCHANGED <<now, tabVars, bellVars, transferRegistration, selectableCategories, showForm,
                 transferLoading, transferNet, category_transfer_requests>>

\* the row handleSubmitTransferRequest inserts (the copied contact fields
\* and the reason are left out)
TransferRow ==
  [registration_id |-> transferRegistration[1].id,
   from_category_id |-> transferRegistration[1].category_id,
   to_category_id |-> selectedCategoryId[1],
   status |-> "pending"]

TransferInFlight ==
  Cardinality({t \in BagToSet(transferNet) : t.kind = "insert"})

\* handleSubmitTransferRequest up to its await: nothing but a toast while no
\* category is selected (the button is disabled then, and while loading),
\* else setLoading(true) and the insert request
handleSubmitTransferRequest ==
  /\ showForm /\ ~transferLoading
  /\ Len(category_transfer_requests) + TransferInFlight < MaxTransfers
  /\ IF selectedCategoryId = None
       THEN UNCHANGED <<transferLoading, transferNet>>
       ELSE /\ transferLoading' = TRUE
            /\ transferNet' = Add(transferNet,
                 [kind |-> "insert", stage |-> "sent", exclude |-> 0, row |-> TransferRow])
  /\ UNCHANGED <<now, tabVars, bellVars, transferRegistration, selectableCategories,
                 selectedCategoryId, showForm, category_transfer_requests>>

\* the backend applies .insert(row)
insert_serve(t) ==
  /\ t.kind = "insert" /\ t.stage = "sent"
  /\ category_transfer_requests' = Append(category_transfer_requests, t.row)
  /\ transferNet' = Replace(transferNet, t, [t EXCEPT !.stage = "ok"])
  /\ UNCHANGED <<now, tabVars, bellVars, transferRegistration, selectableCategories,
                 selectedCategoryId, showForm, transferLoading>>

\* handleSubmitTransferRequest after its await, on success: the form is
\* closed and reset, onTransferRequested() is called, setLoading(false)
insert_resume(t) ==
  /\ t.kind = "insert" /\ t.stage = "ok"
  /\ showForm' = FALSE
  /\ selectedCategoryId' = None
  /\ transferLoading' = FALSE
  /\ transferNet' = Remove(transferNet, t)
  /\ UNCHANGED <<now, tabVars, bellVars, transferRegistration, selectableCategories,
                 category_transfer_requests>>

\* the insert fails (an error result or a thrown exception): a toast, then
\* setLoading(false)
insert_fail(t) ==
  /\ t.kind = "insert" /\ t.stage = "sent"
  /\ transferLoading' = FALSE
  /\ transferNet' = Remove(transferNet, t)
  /\ UNCHANGED <<now, tabVars, bellVars, transferRegistration, selectableCategories,
                 selectedCategoryId, showForm, category_transfer_requests>>

\* The admin reviewer resolves a pending request (the resolution is not
\* part of this code): the request is rejected, or approved and the
\* registration moved to the requested category.
resolveTransfer(k, approve) ==
  /\ k \in 1..Len(category_transfer_requests)
  /\ category_transfer_requests[k].status = "pending"
  /\ category_transfer_requests' =
       [category_transfer_requests EXCEPT
          ![k].status = IF approve THEN "approved" ELSE "rejected"]
  /\ db' = IF approve /\ category_transfer_requests[k].registration_id \in DOMAIN db
             THEN [db EXCEPT ![category_transfer_requests[k].registration_id].category_id =
                               category_transfer_requests[k].to_category_id]
             ELSE db
  /\ UNCHANGED <<now, registrations, categories, loading, expiryFilter, net, clicks,
                 bellVars, transferRegistration, selectableCategories, selectedCategoryId,
                 showForm, transferLoading, transferNet>>

\* the parent renders the form again with the registration as the store
\* holds it now; the form's state, its category list included (the effect
\* that loads it has no dependency), stays
registrationProp ==
  /\ transferRegistration # None
  /\ transferRegistration[1].id \in DOMAIN db
  /\ transferRegistration[1].category_id # db[transferRegistration[1].id].category_id
  /\ transferRegistration' =
       Some([id |-> transferRegistration[1].id,
             category_id |-> db[transferRegistration[1].id].category_id])
  /\ UNCHANGED <<now, tabVars, bellVars, selectableCategories, selectedCategoryId,
                 showForm, transferLoading, transferNet, category_transfer_requests>>

\* ------------------------------------------------------- initial state
\* a row as the intake leaves it: pending, not approved, the expiry date
\* unset or pre-seeded
NewRow(id, cat, created, expiry) ==
  [id |-> id, full_name |-> "n", status |-> "pending", category_id |-> cat,
   created_at |-> created, approved_date |-> None, approved_by |-> None,
   expiry_date |-> expiry]

\* The stores the tab may be opened on: registration 1 is a day old, of any
\* category, and pending (expiry date unset or pre-seeded), rejected, or
\* approved a tick after its creation; registration 2 has just been created.
InitialStores ==
  LET t1 == StartTime - TicksPerDay
      r2 == NewRow(2, 40, StartTime, None)
      R1 == {NewRow(1, c, t1, e) : c \in CatIds \ {40}, e \in {None, Some(t1 + 1)}}
            \cup {[NewRow(1, c, t1, None) EXCEPT !.status = "rejected"] : c \in CatIds \ {40}}
            \cup {[NewRow(1, c, t1, Some(t1 + 1 + TicksPerDay)) EXCEPT
                      !.status = "approved", !.approved_date = Some(t1 + 1),
                      !.approved_by = Some(ADMIN)] : c \in {10}}
  IN  {[r \in RegIds |-> IF r = 1 THEN r1 ELSE r2] : r1 \in R1}

\* the state after mount: useEffect has called fetchRegistrations() and
\* fetchCategories() (fetchPanchayaths feeds a display filter only)
Init ==
  /\ now = StartTime
  /\ TransferUnmounted
  /\ db \in InitialStores
  /\ registrations = <<>>
  /\ categories = <<>>
  /\ loading = TRUE
  /\ expiryFilter = <<>>
  /\ clicks = 0
  /\ expiredRegistrations = <<>>
  /\ expiringRegistrations = <<>>
  /\ bellLoading = FALSE
  /\ bellNet = EmptyBag
  /\ bellStarted = 0
  /\ showAlert = FALSE
  /\ acknowledged = FALSE
  /\ timer = None
  /\ mounted = FALSE
  /\ net = SetToBag({Req("fetchRegistrations", 0, <<>>), Req("fetchCategories", 0, <<>>)})

Next ==
  \/ \E t \in BagToSet(net) : fetchRegistrations_serve(t)
  \/ \E t \in BagToSet(net) : fetchRegistrations_resume(t)
  \/ \E t \in BagToSet(net) : fetchRegistrations_fail(t)
  \/ \E t \in BagToSet(net) : fetchCategories(t)
  \/ \E t \in BagToSet(net) : update_serve(t)
  \/ \E t \in BagToSet(net) : delete_serve(t)
  \/ \E t \in BagToSet(net) : write_resume(t)
  \/ \E t \in BagToSet(net) : write_fail(t)
  \/ \E i \in 1..Len(registrations), status \in {"approved", "rejected"} :
       updateRegistrationStatus(registrations[i], status)
  \/ \E i \in 1..Len(registrations) : restoreRegistration(registrations[i])
  \/ \E i \in 1..Len(registrations) : deleteRegistration(registrations[i])
  \/ Tick

Spec == Init /\ [][Next]_vars

\* The stores the expiry rules are exercised on: one registration, a day
\* after the epoch old, of any status, its expiry date unset or from five
\* days before to five days and a tick after the start of the run.
ExpiryOffsets ==
  {0 - 5 * TicksPerDay, 0 - TicksPerDay, 0 - 1, 0, 1,
   3 * TicksPerDay, 3 * TicksPerDay + 1, 5 * TicksPerDay, 5 * TicksPerDay + 1}

ExpiryStores ==
  LET Row(st, e) ==
        [NewRow(1, 10, TicksPerDay, e) EXCEPT
           !.status = st,
           !.approved_date = IF st = "approved" THEN Some(2 * TicksPerDay) ELSE None,
           !.approved_by = IF st = "approved" THEN Some(ADMIN) ELSE None]
  IN  {[r \in {1} |-> Row(st, e)] :
         st \in {"pending", "approved", "rejected"},
         e \in {None} \cup {Some(StartTime + o) : o \in ExpiryOffsets}}

\* both components mounted: a fetch of the tab and one of the bell are in
\* flight (no earlier one has filled a list); one write and one more fetch
\* of the bell are left of the session's budget
InitExpiry ==
  /\ now = StartTime
  /\ TransferUnmounted
  /\ db \in ExpiryStores
  /\ registrations = <<>>
  /\ categories = <<>>
  /\ loading = TRUE
  /\ expiryFilter = <<>>
  /\ clicks = MaxClicks - 1
  /\ net = SetToBag({Req("fetchRegistrations", 0, <<>>), Req("fetchCategories", 0, <<>>)})
  /\ expiredRegistrations = <<>>
  /\ expiringRegistrations = <<>>
  /\ bellLoading = TRUE
  /\ bellNet = SetToBag({[stage |-> "sent", rows |-> <<>>, seq |-> MaxBellFetches - 1]})
  /\ bellStarted = MaxBellFetches - 1
  /\ showAlert = FALSE
  /\ acknowledged = FALSE
  /\ timer = None
  /\ mounted = TRUE

NextExpiry ==
  \/ Next
  \/ \E text \in FilterTexts : setExpiryFilter(text)
  \/ fetchExpiringRegistrations_start
  \/ \E t \in BagToSet(bellNet) : fetchExpiringRegistrations_serve(t)
  \/ \E t \in BagToSet(bellNet) : fetchExpiringRegistrations_resume(t)
  \/ \E t \in BagToSet(bellNet) : fetchExpiringRegistrations_fail(t)

SpecExpiry == InitExpiry /\ [][NextExpiry]_vars

\* The stores the bell is exercised on: registration 1 pending, expired
\* since a day, expiring within a day or valid for five more days;
\* registration 2 pending or approved, expired since two days or expiring
\* within two days.
BellStores ==
  LET created == StartTime - 3 * TicksPerDay
      Row2(st, e) ==
        [NewRow(2, 40, created, e) EXCEPT
           !.status = st,
           !.approved_date = IF st = "approved" THEN Some(created + 1) ELSE None,
           !.approved_by = IF st = "approved" THEN Some(ADMIN) ELSE None]
  IN  {[r \in RegIds |-> IF r = 1 THEN NewRow(1, 10, created, Some(StartTime + o1))
                                  ELSE Row2(st, Some(StartTime + o2))] :
         o1 \in {0 - TicksPerDay, 1, 5 * TicksPerDay},
         o2 \in {0 - 2 * TicksPerDay, 2 * TicksPerDay},
         st \in {"pending", "approved"}}

\* the tab has loaded its lists and one write is left of the session's
\* budget; the bell has just mounted, its first fetch is in flight
InitBell ==
  /\ now = StartTime
  /\ TransferUnmounted
  /\ db \in BellStores
  /\ registrations = OrderByCreatedDesc({db[r] : r \in DOMAIN db})
  /\ categories = ActiveCategories
  /\ loading = FALSE
  /\ expiryFilter = <<>>
  /\ clicks = MaxClicks - 1
  /\ net = EmptyBag
  /\ expiredRegistrations = <<>>
  /\ expiringRegistrations = <<>>
  /\ bellLoading = TRUE
  /\ bellNet = SetToBag({[stage |-> "sent", rows |-> <<>>, seq |-> 1]})
  /\ bellStarted = 1
  /\ showAlert = FALSE
  /\ acknowledged = FALSE
  /\ timer = None
  /\ mounted = TRUE

NextBell ==
  \/ \E t \in BagToSet(net) : fetchRegistrations_serve(t)
  \/ \E t \in BagToSet(net) : fetchRegistrations_resume(t)
  \/ \E t \in BagToSet(net) : fetchRegistrations_fail(t)
  \/ \E t \in BagToSet(net) : update_serve(t)
  \/ \E t \in BagToSet(net) : delete_serve(t)
  \/ \E t \in BagToSet(net) : write_resume(t)
  \/ \E t \in BagToSet(net) : write_fail(t)
  \/ \E i \in 1..Len(registrations), status \in {"approved", "rejected"} :
       updateRegistrationStatus(registrations[i], status)
  \/ \E i \in 1..Len(registrations) : restoreRegistration(registrations[i])
  \/ \E i \in 1..Len(registrations) : deleteRegistration(registrations[i])
  \/ Tick
  \/ fetchExpiringRegistrations_start
  \/ \E t \in BagToSet(bellNet) : fetchExpiringRegistrations_serve(t)
  \/ \E t \in BagToSet(bellNet) : fetchExpiringRegistrations_resume(t)
  \/ \E t \in BagToSet(bellNet) : fetchExpiringRegistrations_fail(t)
  \/ Second
  \/ autoShow_fire
  \/ handleNotificationClick
  \/ onOpenChange
  \/ onGotIt
  \/ unmount

SpecBell == InitBell /\ [][NextBell]_vars

\* The stores the transfer form is opened on: one pending registration in
\* an active category or in the inactive one.
TransferStores ==
  {[r \in {1} |-> NewRow(1, c, StartTime - TicksPerDay, None)] : c \in {10, 20, 30}}

\* the transfer form just mounted for registration 1: its fetchCategories is
\* in flight; the tab and the bell are not on the page
InitTransfer ==
  /\ now = StartTime
  /\ db \in TransferStores
  /\ registrations = <<>>
  /\ categories = <<>>
  /\ loading = TRUE
  /\ expiryFilter = <<>>
  /\ clicks = 0
  /\ net = EmptyBag
  /\ expiredRegistrations = <<>>
  /\ expiringRegistrations = <<>>
  /\ bellLoading = FALSE
  /\ bellNet = EmptyBag
  /\ bellStarted = 0
  /\ showAlert = FALSE
  /\ acknowledged = FALSE
  /\ timer = None
  /\ mounted = FALSE
  /\ transferRegistration = Some([id |-> 1, category_id |-> db[1].category_id])
  /\ selectableCategories = <<>>
  /\ selectedCategoryId = None
  /\ showForm = FALSE
  /\ transferLoading = FALSE
  /\ transferNet = SetToBag({[kind |-> "fetchCategories", stage |-> "sent",
                              exclude |-> db[1].category_id, row |-> <<>>]})
  /\ category_transfer_requests = <<>>

NextTransfer ==
  \/ \E t \in BagToSet(transferNet) : transfer_fetchCategories(t)
  \/ \E open \in BOOLEAN : setShowForm(open)
  \/ \E i \in 1..Len(selectableCategories) : setSelectedCategoryId(i)
  \/ handleSubmitTransferRequest
  \/ \E t \in BagToSet(transferNet) : insert_serve(t)
  \/ \E t \in BagToSet(transferNet) : insert_resume(t)
  \/ \E t \in BagToSet(transferNet) : insert_fail(t)
  \/ \E k \in 1..Len(category_transfer_requests), approve \in BOOLEAN :
       resolveTransfer(k, approve)
  \/ registrationProp

SpecTransfer == InitTransfer /\ [][NextTransfer]_vars

\* the bell and the tab with every request answered without an error
NextBellReliable ==
  \/ \E t \in BagToSet(net) : fetchRegistrations_serve(t)
  \/ \E t \in BagToSet(net) : fetchRegistrations_resume(t)
  \/ \E t \in BagToSet(net) : update_serve(t)
  \/ \E t \in BagToSet(net) : delete_serve(t)
  \/ \E t \in BagToSet(net) : write_resume(t)
  \/ \E i \in 1..Len(registrations), status \in {"approved", "rejected"} :
       updateRegistrationStatus(registrations[i], status)
  \/ \E i \in 1..Len(registrations) : restoreRegistration(registrations[i])
  \/ \E i \in 1..Len(registrations) : deleteRegistration(registrations[i])
  \/ Tick
  \/ fetchExpiringRegistrations_start
  \/ \E t \in BagToSet(bellNet) : fetchExpiringRegistrations_serve(t)
  \/ \E t \in BagToSet(bellNet) : fetchExpiringRegistrations_resume(t)
  \/ Second
  \/ autoShow_fire
  \/ handleNotificationClick
  \/ onOpenChange
  \/ onGotIt
  \/ unmount

SpecBellReliable == InitBell /\ [][NextBellReliable]_vars

\* the tab with every request answered without an error
NextReliable ==
  \/ \E t \in BagToSet(net) : fetchRegistrations_serve(t)
  \/ \E t \in BagToSet(net) : fetchRegistrations_resume(t)
  \/ \E t \in BagToSet(net) : fetchCategories(t)
  \/ \E t \in BagToSet(net) : update_serve(t)
  \/ \E t \in BagToSet(net) : delete_serve(t)
  \/ \E t \in BagToSet(net) : write_resume(t)
  \/ \E i \in 1..Len(registrations), status \in {"approved", "rejected"} :
       updateRegistrationStatus(registrations[i], status)
  \/ \E i \in 1..Len(registrations) : restoreRegistration(registrations[i])
  \/ \E i \in 1..Len(registrations) : deleteRegistration(registrations[i])
  \/ Tick

SpecReliable == Init /\ [][NextReliable]_vars

\* ------------------------------------------------------------ claims
\* The requests put in flight by the step, and the request the backend
\* applies in the step.
Issued(t) == CopiesIn(t, net') > CopiesIn(t, net) /\ t.stage = "sent"
Applied(t) ==
  /\ t \in BagToSet(net) /\ t.kind = "update" /\ t.stage = "sent"
  /\ net' = Replace(net, t, [t EXCEPT !.stage = "ok"])
  /\ t.id \in DOMAIN db
ApproveRequests(bag) ==
  {t \in BagToSet(bag) : t.kind = "update" /\ t.payload.status = "approved"}
RestoreRequests(bag) ==
  {t \in BagToSet(bag) : t.kind = "update" /\ t.payload.status = "pending"}
LocalRow(id) == CHOOSE r \in Find(registrations, id) : TRUE

\* C1 (as stated): approve on a pending registration whose expiry_date is
\* unset writes expiry_date = created_at + expiry_days of the registration's
\* category (taken here in the handler's favour: the category is in the
\* loaded list with its expiry_days).
C1_ExpiryFromCreatedAt ==
  [][\A t \in ApproveRequests(net') :
       (/\ Issued(t)
        /\ LocalRow(t.id).status = "pending"
        /\ LocalRow(t.id).expiry_date = None
        /\ \E j \in 1..Len(categories) :
             /\ categories[j].id = LocalRow(t.id).category_id
             /\ categories[j].expiry_days # None)
       => /\ "expiry_date" \in DOMAIN t.payload
          /\ t.payload.expiry_date =
               Some(LocalRow(t.id).created_at
                    + categoriesTable[LocalRow(t.id).category_id].expiry_days[1]
                      * TicksPerDay)]_vars

\* the validity the approve handler can see: expiry_days of the row's
\* category in the loaded category list, 30 when it finds none there
LoadedDays(reg) ==
  LET D == {categories[j].expiry_days[1] :
              j \in {k \in 1..Len(categories) :
                       /\ categories[k].id = reg.category_id
                       /\ categories[k].expiry_days # None
                       /\ categories[k].expiry_days # Some(0)}}
  IN  IF D = {} THEN 30 ELSE CHOOSE d \in D : TRUE

\* C1 (amended): approve on a row whose locally held expiry_date is unset
\* sends expiry_date = the approval instant + d days, d the expiry_days of
\* the row's category in the loaded category list or 30 when there is none,
\* and the backend stores that value when it applies the update.
C1_ExpiryFromApprovalInstant ==
  [][/\ \A t \in ApproveRequests(net') :
          (Issued(t) /\ LocalRow(t.id).expiry_date = None)
          => /\ "expiry_date" \in DOMAIN t.payload
             /\ t.payload.expiry_date = Some(now + LoadedDays(LocalRow(t.id)) * TicksPerDay)
             /\ t.payload.approved_date = Some(now)
     /\ \A t \in ApproveRequests(net) :
          (Applied(t) /\ "expiry_date" \in DOMAIN t.payload)
          => db'[t.id].expiry_date = t.payload.expiry_date]_vars

\* a registration approved in this run more than a tick after its creation,
\* its expiry date 45 days after the approval
C1_Witness ==
  \E r \in DOMAIN db :
    /\ db[r].status = "approved"
    /\ db[r].approved_date # None
    /\ db[r].approved_date[1] > db[r].created_at + 1
    /\ db[r].expiry_date = Some(db[r].approved_date[1] + 45 * TicksPerDay)

\* C2: an approve never overwrites a stored expiry_date: if expiry_date is
\* set just before an approve write is applied, it has the same value after.
C2_ApproveKeepsExpiry ==
  [][\A t \in ApproveRequests(net) :
       (Applied(t) /\ db[t.id].expiry_date # None)
       => db'[t.id].expiry_date = db[t.id].expiry_date]_vars

LegalEdges ==
  {<<"pending", "approved">>, <<"pending", "rejected">>,
   <<"approved", "pending">>, <<"rejected", "pending">>}

\* C3: the stored status of a registration changes only along the edges
\* pending -> approved, pending -> rejected, approved -> pending and
\* rejected -> pending.
C3_LegalEdgesOnly ==
  [][\A r \in DOMAIN db \cap DOMAIN db' :
       db'[r].status # db[r].status
       => <<db[r].status, db'[r].status>> \in LegalEdges]_vars

\* C4: in the store, approved_date and approved_by of a registration are
\* both null or both set.
C4_ApprovalStampsPaired ==
  \A r \in DOMAIN db : (db[r].approved_date = None) <=> (db[r].approved_by = None)

\* registration 2, created pending, stands approved with both stamps
C4_Witness ==
  /\ 2 \in DOMAIN db
  /\ db[2].status = "approved"
  /\ db[2].approved_date # None
  /\ db[2].approved_by = Some(ADMIN)

\* C5: a restore applied to a stored approved or rejected registration sets
\* status to pending and approved_date and approved_by to null, and changes
\* no other field and no other registration.
C5_RestoreFrame ==
  [][\A t \in RestoreRequests(net) :
       (Applied(t) /\ db[t.id].status \in {"approved", "rejected"})
       => db' = [db EXCEPT ![t.id] = [@ EXCEPT !.status = "pending",
                                               !.approved_date = None,
                                               !.approved_by = None]]]_vars

\* a restore has just been applied to a registration the tab still shows as
\* approved: it is pending again, unstamped, and still carries its expiry date
C5_Witness ==
  \E t \in RestoreRequests(net) :
    /\ t.stage = "ok"
    /\ t.id \in DOMAIN db
    /\ db[t.id].status = "pending"
    /\ db[t.id].approved_date = None
    /\ db[t.id].approved_by = None
    /\ db[t.id].expiry_date # None
    /\ \E i \in 1..Len(registrations) :
         registrations[i].id = t.id /\ registrations[i].status = "approved"

\* C6: a stored expiry_date is never earlier than the registration's
\* created_at.
C6_ExpiryNotBeforeCreation ==
  \A r \in DOMAIN db :
    db[r].expiry_date # None => db[r].expiry_date[1] >= db[r].created_at

\* registration 2, created without an expiry date, got one from an approve
C6_Witness ==
  /\ 2 \in DOMAIN db
  /\ db[2].expiry_date # None
  /\ db[2].approved_date # None

\* C7: whenever the registration's category is in the Category Directory
\* (the active categories) with an expiry_days value, approve uses that
\* value, also before the category list has loaded; it uses 30 otherwise.
C7_DirectoryValueUsed ==
  [][\A t \in ApproveRequests(net') :
       (Issued(t) /\ "expiry_date" \in DOMAIN t.payload)
       => LET c == categoriesTable[LocalRow(t.id).category_id]
          IN  t.payload.expiry_date =
                Some(now + TicksPerDay *
                       (IF c.is_active /\ c.expiry_days # None
                          THEN c.expiry_days[1] ELSE 30))]_vars

\* the steps of the bell in which the backend answers the select of request
\* t and in which the handler classifies the rows of t
Selected(t) ==
  /\ t \in BagToSet(bellNet) /\ t.stage = "sent"
  /\ bellNet' = Replace(bellNet, t, [t EXCEPT !.stage = "ok", !.rows = SelectPending])
Classified(t) ==
  /\ t \in BagToSet(bellNet) /\ t.stage = "ok"
  /\ bellNet' = Remove(bellNet, t)
Ids(s) == {s[i].id : i \in 1..Len(s)}
Buckets == Ids(expiredRegistrations) \cup Ids(expiringRegistrations)

\* C8: a registration whose status is approved is never placed in a bucket
\* of the bell and never matches the expiry filter: the rows a select of
\* the bell returns are not approved in the store at the select, the buckets
\* hold only rows of the select being classified, and no locally held
\* approved row matches a non-empty filter.
C8_ApprovedExempt ==
  /\ [][\A t \in BagToSet(bellNet) :
          /\ Selected(t) =>
               \A u \in BagToSet(bellNet') :
                 (u.stage = "ok" /\ CopiesIn(u, bellNet') > CopiesIn(u, bellNet))
                 => \A i \in 1..Len(u.rows) :
                      db[u.rows[i].id].status # "approved"
          /\ Classified(t) => Buckets' \subseteq Ids(t.rows)]_vars
  /\ [](\A i \in 1..Len(registrations) :
          (registrations[i].status = "approved" /\ expiryFilter # <<>>)
          => ~MatchesExpiry(registrations[i]))

\* the bell has fetched and the list is filtered by "5" while the only
\* registration is approved and expires within three days
C8_Witness ==
  /\ bellNet = EmptyBag /\ ~bellLoading
  /\ Buckets = {}
  /\ expiryFilter = <<"5">>
  /\ 1 \in DOMAIN db /\ db[1].status = "approved"
  /\ db[1].expiry_date # None
  /\ db[1].expiry_date[1] > now /\ db[1].expiry_date[1] <= now + 3 * TicksPerDay
  /\ Len(registrations) = 1 /\ registrations[1] = db[1]

\* C9 (as stated): after a re-fetch of the bell every registration that is
\* not approved is in the expired bucket iff its expiry_date is now or
\* earlier, in the expiring-soon bucket iff it is later than now and at most
\* 3 days later, and in neither iff it is more than 3 days later.
C9_NonApprovedClassified ==
  [][\A t \in BagToSet(bellNet) : Classified(t) =>
       \A r \in DOMAIN db : (db[r].status # "approved" /\ db[r].expiry_date # None) =>
         LET e == DateTime(db[r].expiry_date)
         IN  /\ r \in Ids(expiredRegistrations') <=> e <= now
             /\ r \in Ids(expiringRegistrations') <=>
                  (e > now /\ e <= now + 3 * TicksPerDay)]_vars

\* C9 (amended): the same for every pending registration the bell's select
\* returned (a rejected registration is not selected and is in no bucket);
\* days_remaining of an entry is the least n with expiry_date - now <= n days.
C9_PendingClassified ==
  [][\A t \in BagToSet(bellNet) : Classified(t) =>
       /\ Buckets' \subseteq Ids(t.rows)
       /\ \A i \in 1..Len(t.rows) :
            LET e == DateTime(t.rows[i].expiry_date)
                r == t.rows[i].id
            IN  /\ r \in Ids(expiredRegistrations') <=> e <= now
                /\ r \in Ids(expiringRegistrations') <=>
                     (e > now /\ e <= now + 3 * TicksPerDay)
                /\ r \notin Buckets' <=> e > now + 3 * TicksPerDay
                /\ \A b \in {expiredRegistrations', expiringRegistrations'} :
                     \A j \in 1..Len(b) : b[j].id = r =>
                       /\ e - now <= b[j].days_remaining * TicksPerDay
                       /\ e - now > (b[j].days_remaining - 1) * TicksPerDay]_vars

\* a registration expiring exactly three days from now stands in the
\* expiring-soon bucket with days_remaining 3
C9_Witness ==
  /\ bellNet = EmptyBag
  /\ Len(expiringRegistrations) = 1
  /\ expiringRegistrations[1].days_remaining = 3
  /\ 1 \in DOMAIN db /\ db[1].expiry_date = Some(now + 3 * TicksPerDay)

\* the threshold a filter text stands for
Threshold ==
  CASE expiryFilter = <<"0">> -> 0
    [] expiryFilter = <<"1">> -> 1
    [] expiryFilter = <<"5">> -> 5
    [] OTHER -> -1

\* C10: with threshold N >= 1 the filter matches a registration that is not
\* approved iff 0 <= days_remaining <= N, with threshold 0 iff
\* days_remaining <= 0, and with no threshold it matches every registration
\* (days_remaining <= n iff expiry_date - now <= n days).
C10_ExpiryFilter ==
  \A i \in 1..Len(registrations) :
    LET reg == registrations[i]
        diff == DateTime(reg.expiry_date) - now
    IN  /\ expiryFilter = <<>> => MatchesExpiry(reg)
        /\ (Threshold = 0 /\ reg.status # "approved")
             => (MatchesExpiry(reg) <=> diff <= 0)
        /\ (Threshold >= 1 /\ reg.status # "approved")
             => (MatchesExpiry(reg) <=>
                   (diff > (0 - 1) * TicksPerDay /\ diff <= Threshold * TicksPerDay))

\* threshold 0 matches a rejected registration that expired five days ago
C10_Witness ==
  /\ expiryFilter = <<"0">>
  /\ Len(registrations) = 1
  /\ registrations[1].status = "rejected"
  /\ registrations[1].expiry_date = Some(now - 5 * TicksPerDay)
  /\ MatchesExpiry(registrations[1])

Ascending(s) ==
  \A i \in 1..Len(s) : \A j \in i..Len(s) : s[i].days_remaining <= s[j].days_remaining

\* C11: when a re-fetch of the bell completes, the expired bucket holds
\* exactly the fetched rows whose expiry_date is now or earlier and the
\* expiring-soon bucket exactly those expiring later than now and within 3
\* days, each row once and in one bucket only; each bucket is ascending by
\* days_remaining, and the combined alert list is the expired bucket
\* followed by the expiring-soon bucket and ascending as a whole.
C11_BucketsPartitionSorted ==
  [][\A t \in BagToSet(bellNet) : (Classified(t) /\ mounted) =>
       LET diff(i) == DateTime(t.rows[i].expiry_date) - now
           rows == 1..Len(t.rows)
       IN  /\ Ids(expiredRegistrations') = {t.rows[i].id : i \in {k \in rows : diff(k) <= 0}}
           /\ Ids(expiringRegistrations') =
                {t.rows[i].id : i \in {k \in rows : diff(k) > 0
                                                    /\ diff(k) <= 3 * TicksPerDay}}
           /\ Ids(expiredRegistrations') \cap Ids(expiringRegistrations') = {}
           /\ Len(expiredRegistrations') = Cardinality(Ids(expiredRegistrations'))
           /\ Len(expiringRegistrations') = Cardinality(Ids(expiringRegistrations'))
           /\ Ascending(expiredRegistrations')
           /\ Ascending(expiringRegistrations')
           /\ AlertRegistrations' = expiredRegistrations' \o expiringRegistrations'
           /\ Ascending(AlertRegistrations')]_vars

\* both registrations stand in the expired bucket, the one overdue by two
\* days before the one overdue by one day, against the order of the select
C11_Witness ==
  /\ bellNet = EmptyBag
  /\ Len(expiredRegistrations) = 2
  /\ expiredRegistrations[1].id = 2 /\ expiredRegistrations[1].days_remaining = 0 - 2
  /\ expiredRegistrations[2].id = 1 /\ expiredRegistrations[2].days_remaining = 0 - 1

\* C12: acknowledged starts false, is set only by the acknowledge action
\* (which changes nothing else of the bell but the timer) and is never
\* reset; acknowledging clears a pending auto-show timer, no timer is armed
\* while acknowledged is true, and while it is true the alert goes from
\* hidden to shown only by a click, whatever the re-fetches do to the buckets.
C12_AcknowledgedSticky ==
  /\ acknowledged = FALSE
  /\ [][/\ acknowledged => acknowledged'
        /\ (~acknowledged /\ acknowledged') =>
             /\ showAlert /\ mounted
             /\ timer' = None
             /\ UNCHANGED <<now, tabVars, expiredRegistrations, expiringRegistrations,
                            bellLoading, bellNet, bellStarted, showAlert, mounted>>
        /\ (acknowledged /\ ~showAlert /\ showAlert') =>
             /\ ~bellLoading
             /\ AlertRegistrations # <<>>
             /\ UNCHANGED <<expiredRegistrations, expiringRegistrations, timer>>]_vars
  /\ [](acknowledged => timer = None)

\* acknowledged, the alert closed, and after the second re-fetch both
\* buckets are non-empty: no timer is armed
C12_Witness ==
  /\ acknowledged /\ ~showAlert /\ mounted
  /\ bellStarted = 2 /\ bellNet = EmptyBag
  /\ Len(expiredRegistrations) > 0 /\ Len(expiringRegistrations) > 0

\* C13: whatever the value of acknowledged, the badge of a non-empty bucket
\* is shown with the size of the bucket, and whenever at least one bucket is
\* non-empty and the buttons are enabled a click is possible and leaves the
\* alert shown with the current combined list.
C13_CountsAndManualOpen ==
  /\ \A bucket \in {expiredRegistrations, expiringRegistrations} :
       /\ Len(bucket) > 0 => Badge(bucket) = Some(Len(bucket))
       /\ Len(bucket) = 0 => Badge(bucket) = None
  /\ (mounted /\ ~bellLoading /\ AlertRegistrations # <<>>)
       => ENABLED (/\ handleNotificationClick
                   /\ showAlert'
                   /\ AlertRegistrations' = AlertRegistrations)

\* acknowledged and the alert closed while the expired badge shows 1: the
\* bell can be clicked
C13_Witness ==
  /\ acknowledged /\ ~showAlert /\ mounted /\ ~bellLoading
  /\ Badge(expiredRegistrations) = Some(1)

\* C14: while a bucket is non-empty and acknowledged is false, the alert is
\* surfaced 2 seconds after the condition first became true: as long as the
\* condition stays true and the bell mounted, no step, a re-fetch that
\* changes the bucket counts included, puts the pending surfacing further
\* off than it was.
C14_DelayFromFirstTrue ==
  [][(/\ mounted /\ mounted'
      /\ AlertCondition(expiredRegistrations, expiringRegistrations, acknowledged)
      /\ AlertCondition(expiredRegistrations', expiringRegistrations', acknowledged')
      /\ timer # None /\ timer' # None)
     => timer'[1] <= timer[1]]_vars

\* C15: no auto-show timer is pending once the bell is unmounted or while
\* both buckets are empty, the alert goes from hidden to shown only while
\* the bell is mounted and a bucket is non-empty, and after the unmount no
\* re-fetch is started (the interval and the channel are gone).
C15_CancelledOnTeardown ==
  /\ [](~mounted => timer = None)
  /\ [](AlertRegistrations = <<>> => timer = None)
  /\ [][/\ (~showAlert /\ showAlert') => (mounted /\ AlertRegistrations # <<>>)
        /\ ~mounted => /\ bellStarted' = bellStarted
                       /\ \A u \in BagToSet(bellNet') :
                            u.stage = "sent"
                            => CopiesIn(u, bellNet') <= CopiesIn(u, bellNet)
                       /\ ~mounted']_vars

\* unmounted with a bucket non-empty before the alert was ever surfaced or
\* acknowledged, a re-fetch still left of the budget: the timer armed for
\* the bucket is gone
C15_Witness ==
  /\ ~mounted /\ ~showAlert /\ ~acknowledged
  /\ Len(expiredRegistrations) > 0
  /\ bellStarted < MaxBellFetches
  /\ timer = None

\* C16: overlapping re-fetches of the bell are last-fetch-wins: once every
\* re-fetch in flight has completed, the buckets are the classification of
\* the snapshot read by the most recently started one. Here, with every
\* re-fetch successful: a re-fetch that completes last although a later
\* started one has completed before it, and whose rows are not the pending
\* rows of the store any more, does not change which registrations the
\* buckets hold.
C16_LastStartedWins ==
  [][\A t \in BagToSet(bellNet) :
       (/\ Classified(t) /\ mounted
        /\ bellNet' = EmptyBag
        /\ t.seq < bellStarted
        /\ t.rows # SelectPending)
       => Buckets' = Buckets]_vars

\* the step in which request t of the tab, or of the bell, ends in failure
Failed(t) ==
  /\ t \in BagToSet(net) /\ t.stage = "sent" /\ net' = Remove(net, t)
BellFailed(t) ==
  /\ t \in BagToSet(bellNet) /\ t.stage = "sent" /\ bellNet' = Remove(bellNet, t)

\* C17: a re-fetch that fails leaves the in-memory state as it was: neither
\* the step that starts a re-fetch of the tab or of the bell nor the step in
\* which it fails changes the tab's registration list or a bucket of the
\* bell.
C17_FailedReadKeepsState ==
  [][/\ \A t \in BagToSet(net') :
          (t.kind = "fetchRegistrations" /\ Issued(t)) => registrations' = registrations
     /\ \A t \in BagToSet(net) :
          (t.kind = "fetchRegistrations" /\ Failed(t)) => registrations' = registrations
     /\ \A t \in BagToSet(bellNet') :
          (t.stage = "sent" /\ CopiesIn(t, bellNet') > CopiesIn(t, bellNet))
          => UNCHANGED <<expiredRegistrations, expiringRegistrations>>
     /\ \A t \in BagToSet(bellNet) :
          BellFailed(t) => UNCHANGED <<expiredRegistrations, expiringRegistrations>>]_vars

\* a write has been applied and its re-fetch has failed: the tab still holds
\* the list it had, which is not the store's any more; the bell's second
\* re-fetch is over and its expired bucket is not empty
C17_Witness ==
  /\ net = EmptyBag /\ ~loading /\ clicks = MaxClicks
  /\ registrations # <<>>
  /\ registrations # OrderByCreatedDesc({db[r] : r \in DOMAIN db})
  /\ bellNet = EmptyBag /\ bellStarted = 2
  /\ Len(expiredRegistrations) > 0

\* the step in which write request t leaves the net unanswered: it fails
WriteFailed(t) ==
  /\ t.kind \in {"update", "delete"} /\ t.stage = "sent"
  /\ CopiesIn(t, net') < CopiesIn(t, net)
  /\ CopiesIn([t EXCEPT !.stage = "ok"], net') <= CopiesIn([t EXCEPT !.stage = "ok"], net)

\* C18: the locally held list changes only in the step in which a re-fetch
\* completes successfully, and to the rows that re-fetch read; the step in
\* which a write fails removes the failed request and does nothing else: no
\* new write, no re-fetch, the list and the store as they were.
C18_NoOptimismNoRetry ==
  [][/\ registrations' # registrations =>
          \E t \in BagToSet(net) :
            /\ t.kind = "fetchRegistrations" /\ t.stage = "ok"
            /\ net' = Remove(net, t)
            /\ registrations' = t.rows
     /\ \A t \in BagToSet(net) :
          WriteFailed(t) => /\ net' = Remove(net, t)
                            /\ UNCHANGED <<db, registrations, loading>>]_vars

\* the one write issued so far has failed: nothing is in flight and the
\* store is as it was when the tab was opened
C18_Witness ==
  /\ clicks = 1 /\ net = EmptyBag /\ ~loading
  /\ registrations # <<>>
  /\ db \in InitialStores

\* C19: with every request answered without an error, once no write and no
\* re-fetch of the registrations is in flight the locally held list is the
\* content of the store, newest first, whatever the order in which
\* overlapping re-fetches have completed.
C19_RefetchIsTruth ==
  (\A t \in BagToSet(net) : t.kind = "fetchCategories")
  => registrations = OrderByCreatedDesc({db[r] : r \in DOMAIN db})

\* C20: in the store a registration carries approval stamps if and only if
\* its status is approved.
C20_StampsIffApproved ==
  \A r \in DOMAIN db :
    /\ db[r].approved_date # None <=> db[r].status = "approved"
    /\ db[r].approved_by # None <=> db[r].status = "approved"

\* C21: a pending registration whose expiry_date is null counts as expired
\* at the epoch: when a re-fetch of the bell that read it completes, it is in
\* the expired bucket, not in the expiring-soon bucket, and the expired badge
\* counts it; in the tab it matches the expiry filter with threshold 0 and
\* with no threshold of 1 or more.
C21_NullExpiryIsEpoch ==
  /\ [][\A t \in BagToSet(bellNet) : (Classified(t) /\ mounted) =>
          \A i \in 1..Len(t.rows) : t.rows[i].expiry_date = None =>
            /\ t.rows[i].id \in Ids(expiredRegistrations')
            /\ t.rows[i].id \notin Ids(expiringRegistrations')
            /\ Badge(expiredRegistrations') # None
            /\ \A j \in 1..Len(expiredRegistrations') :
                 expiredRegistrations'[j].id = t.rows[i].id
                 => expiredRegistrations'[j].days_remaining * TicksPerDay
                      \in (0 - now - TicksPerDay + 1)..(0 - now + TicksPerDay - 1)]_vars
  /\ [](\A i \in 1..Len(registrations) :
          (registrations[i].status = "pending" /\ registrations[i].expiry_date = None)
          => /\ Threshold = 0 => MatchesExpiry(registrations[i])
             /\ Threshold >= 1 => ~MatchesExpiry(registrations[i]))

\* the pending registration without an expiry date stands in the expired
\* bucket and the tab, filtering by "5", does not list it
C21_Witness ==
  /\ bellNet = EmptyBag
  /\ Len(expiredRegistrations) = 1 /\ expiredRegistrations[1].id = 1
  /\ 1 \in DOMAIN db /\ db[1].status = "pending" /\ db[1].expiry_date = None
  /\ expiryFilter = <<"5">>
  /\ Len(registrations) = 1 /\ registrations[1] = db[1]
  /\ ~MatchesExpiry(registrations[1])

\* C22: every transfer request the form submits has status pending and a
\* to_category_id that differs from its from_category_id and from the
\* category the registration has in the store at the submit; no insert is
\* issued while no category is selected; issuing an insert and applying it
\* leave every registration as it is.
C22_TransferWellFormed ==
  [][/\ \A t \in BagToSet(transferNet') :
          (t.kind = "insert" /\ t.stage = "sent"
           /\ CopiesIn(t, transferNet') > CopiesIn(t, transferNet))
          => /\ selectedCategoryId # None
             /\ t.row.status = "pending"
             /\ t.row.to_category_id # t.row.from_category_id
             /\ t.row.to_category_id # db[t.row.registration_id].category_id
             /\ db' = db
     /\ Len(category_transfer_requests') > Len(category_transfer_requests)
          => db' = db]_vars

====
